---- MODULE Spec2Model ----
(***************************************************************************)
(* Model of the comparison and recommendation engine of the multi-agent    *)
(* content system: logic_blocks/comparison_logic.py and the rule methods   *)
(* of agents/comparison_agent.py, run in the order ComparisonAgent.process *)
(* calls them.                                                             *)
(*                                                                         *)
(* A Python str is modelled as a sequence of one-character strings, so     *)
(* that slicing, digit filtering, lower-casing, splitting and substring    *)
(* search are computed as the code computes them.                          *)
(***************************************************************************)
EXTENDS Integers, Sequences, FiniteSets, TLC

VARIABLES
    product_a,        \* data["product_a"] handed to ComparisonAgent.process
    product_b,        \* data["product_b"]
    pc,               \* position inside ComparisonAgent.process
    comparison,       \* comparison_details, the dict compare_products returns
    analysis,         \* the text generate_comparison_analysis returns
    recommendations,  \* the dict _generate_recommendations returns
    score_a,          \* _determine_winner's local score_a
    score_b,          \* _determine_winner's local score_b
    winner,           \* the value _determine_winner returns
    raised            \* the exception that left process, or "None"

vars == <<product_a, product_b, pc, comparison, analysis, recommendations,
          score_a, score_b, winner, raised>>

VARIABLES
    first_product,    \* products[0], the first parsed product of the workflow run
    data,             \* the dict the orchestrator hands to FAQAgent.process
    count,            \* the count argument of _select_top_questions
    questions,        \* FAQAgent.process local: data.get("questions", [])
    product_data,     \* FAQAgent.process local: data.get("product_data", {})
    selected,         \* the list _select_top_questions returns
    faq_items,        \* the answered questions collected so far
    faq_page,         \* the dict FAQAgent.process returns
    faq_pc            \* position inside FAQAgent.process

faqvars == <<first_product, data, count, questions, product_data, selected,
             faq_items, faq_page, faq_pc>>

\* The FAQ agent has not been called
FaqIdle ==
    /\ first_product = <<>>
    /\ data = <<>>
    /\ count = 0
    /\ questions = <<>>
    /\ product_data = <<>>
    /\ selected = <<>>
    /\ faq_items = <<>>
    /\ faq_page = [none |-> TRUE]
    /\ faq_pc = "idle"

\* Python's None, for a local that is not yet assigned
None == [none |-> TRUE]

\* The empty dict {}, what data.get("product_a", {}) gives for an absent key
EmptyDict == <<>>

----------------------------------------------------------------------------
(* Python str primitives                                                   *)

Min(x, y) == IF x < y THEN x ELSE y

Abs(x) == IF x < 0 THEN -x ELSE x

DigitChars == <<"0", "1", "2", "3", "4", "5", "6", "7", "8", "9">>

\* c in '0123456789'
IsDigit(c) == \E i \in 1..Len(DigitChars) : DigitChars[i] = c

DigitVal(c) == (CHOOSE i \in 1..Len(DigitChars) : DigitChars[i] = c) - 1

\* ''.join(c for c in s if c in '0123456789')
FilterDigits(s) == SelectSeq(s, IsDigit)

\* int(digits) for a non-empty string of ASCII digits
RECURSIVE ParseDigits(_)
ParseDigits(d) ==
    IF d = <<>> THEN 0
    ELSE 10 * ParseDigits(SubSeq(d, 1, Len(d) - 1)) + DigitVal(d[Len(d)])

\* int('') raises ValueError
IntRaises(d) == d = <<>>

\* str(n) for n >= 0, as an f-string renders an int
RECURSIVE IntToStr(_)
IntToStr(n) ==
    IF n < 10 THEN <<DigitChars[n + 1]>>
    ELSE IntToStr(n \div 10) \o <<DigitChars[(n % 10) + 1]>>

UpperChars == <<"A", "B", "C", "D", "E", "F", "G", "H", "I", "J", "K", "L", "M",
                "N", "O", "P", "Q", "R", "S", "T", "U", "V", "W", "X", "Y", "Z">>

LowerChars == <<"a", "b", "c", "d", "e", "f", "g", "h", "i", "j", "k", "l", "m",
                "n", "o", "p", "q", "r", "s", "t", "u", "v", "w", "x", "y", "z">>

LowerChar(c) ==
    IF \E i \in 1..Len(UpperChars) : UpperChars[i] = c
    THEN LowerChars[CHOOSE i \in 1..Len(UpperChars) : UpperChars[i] = c]
    ELSE c

\* s.lower()
Lower(s) == [i \in 1..Len(s) |-> LowerChar(s[i])]

NotSpace(c) == c # " "

\* s.replace(' ', '')
RemoveSpaces(s) == SelectSeq(s, NotSpace)

\* s.split(','): always at least one token, the empty string splits to ['']
RECURSIVE Split(_)
Split(s) ==
    IF \A i \in 1..Len(s) : s[i] # ","
    THEN <<s>>
    ELSE LET k == CHOOSE i \in 1..Len(s) :
                      s[i] = "," /\ \A j \in 1..(i - 1) : s[j] # ","
         IN <<SubSeq(s, 1, k - 1)>> \o Split(SubSeq(s, k + 1, Len(s)))

\* sub in s
Contains(sub, s) ==
    \E i \in 1..(Len(s) - Len(sub) + 1) : SubSeq(s, i, i + Len(sub) - 1) = sub

SeqToSet(q) == {q[i] : i \in 1..Len(q)}

----------------------------------------------------------------------------
(* logic_blocks/comparison_logic.py                                        *)

\* The slice [:3] applied to the concentration string before digit filtering
ConcPrefixLen == 3

\* A digit character outside ASCII (SUPERSCRIPT TWO): str.isdigit() is true
\* of it, the membership test c in '0123456789' is not
SuperscriptTwo == "²"

RECURSIVE ParseUnicodeDigits(_)
ParseUnicodeDigits(d) ==
    IF d = <<>> THEN 0
    ELSE 10 * ParseUnicodeDigits(SubSeq(d, 1, Len(d) - 1))
         + (IF d[Len(d)] = SuperscriptTwo THEN 2 ELSE DigitVal(d[Len(d)]))

IsUnicodeDigit(c) == IsDigit(c) \/ c = SuperscriptTwo

\* Variant: every character that is a digit to str.isdigit() counts, the
\* superscript two as 2
ExtractPriceIsdigit(price_str) ==
    LET digits == SelectSeq(price_str, IsUnicodeDigit)
    IN IF digits # <<>> THEN ParseUnicodeDigits(digits) ELSE 0

\* _extract_price: the ASCII digits of the string as an integer, 0 when none
_extract_price(price_str) ==
    LET digits == FilterDigits(price_str)
    IN IF digits # <<>> THEN ParseDigits(digits) ELSE 0

\* Variant: the digits taken from the whole string, without the [:3] slice
ConcDigitsWholeString(concentration) == FilterDigits(concentration)

\* ''.join(c for c in product['concentration'][:3] if c in '0123456789')
ConcDigits(concentration) ==
    FilterDigits(SubSeq(concentration, 1, Min(ConcPrefixLen, Len(concentration))))

\* Variant: each int() call in a try block of its own, so only the failing side
\* defaults to 0
ExtractConcentrationsPerSide(conc_str_a, conc_str_b) ==
    [conc_a |-> IF IntRaises(ConcDigits(conc_str_a)) THEN 0
                ELSE ParseDigits(ConcDigits(conc_str_a)),
     conc_b |-> IF IntRaises(ConcDigits(conc_str_b)) THEN 0
                ELSE ParseDigits(ConcDigits(conc_str_b))]

\* The try/except of compare_products: both int() calls sit in one try block,
\* so a ValueError from either side sets both values to 0.
ExtractConcentrations(conc_str_a, conc_str_b) ==
    IF IntRaises(ConcDigits(conc_str_a)) \/ IntRaises(ConcDigits(conc_str_b))
    THEN [conc_a |-> 0, conc_b |-> 0]
    ELSE [conc_a |-> ParseDigits(ConcDigits(conc_str_a)),
          conc_b |-> ParseDigits(ConcDigits(conc_str_b))]

AllStr == <<"a", "l", "l">>

\* set(s.lower().replace(' ', '').split(','))
\* Variant: empty tokens dropped from the set, the empty string giving no token
TokenSetDropEmpty(s) == SeqToSet(Split(RemoveSpaces(Lower(s)))) \ {<<>>}

TokenSet(s) == SeqToSet(Split(RemoveSpaces(Lower(s))))

\* Variant: the "all" test placed after the set tests instead of before them
AnalyzeSkinAllLast(skin_type_a, skin_type_b) ==
    LET types_a == TokenSet(skin_type_a)
        types_b == TokenSet(skin_type_b)
        overlap == types_a \cap types_b
    IN IF Cardinality(overlap) = Cardinality(types_a)
          /\ Cardinality(overlap) = Cardinality(types_b)
       THEN "Identical skin type targeting"
       ELSE IF Contains(AllStr, Lower(skin_type_b)) \/ Contains(AllStr, Lower(skin_type_a))
       THEN "One product suits all skin types"
       ELSE IF Cardinality(overlap) = 0
       THEN "Different target skin types"
       ELSE "Partial overlap in skin types"

\* Variant: the identity test compares the overlap with types_a only
AnalyzeSkinSubsetIdentical(skin_type_a, skin_type_b) ==
    LET types_a == TokenSet(skin_type_a)
        types_b == TokenSet(skin_type_b)
        overlap == types_a \cap types_b
    IN IF Contains(AllStr, Lower(skin_type_b)) \/ Contains(AllStr, Lower(skin_type_a))
       THEN "One product suits all skin types"
       ELSE IF Cardinality(overlap) = 0
       THEN "Different target skin types"
       ELSE IF Cardinality(overlap) = Cardinality(types_a)
       THEN "Identical skin type targeting"
       ELSE "Partial overlap in skin types"

_analyze_skin_type_overlap(skin_type_a, skin_type_b) ==
    LET types_a == TokenSet(skin_type_a)
        types_b == TokenSet(skin_type_b)
        overlap == types_a \cap types_b
    IN IF Contains(AllStr, Lower(skin_type_b)) \/ Contains(AllStr, Lower(skin_type_a))
       THEN "One product suits all skin types"
       ELSE IF Cardinality(overlap) = 0
       THEN "Different target skin types"
       ELSE IF Cardinality(overlap) = Cardinality(types_a)
               /\ Cardinality(overlap) = Cardinality(types_b)
       THEN "Identical skin type targeting"
       ELSE "Partial overlap in skin types"

\* Variant: the quotient taken with floor division (n // d)
SimilarityAboveFloorDiv(n, d, tenths) == 10 * (n \div d) > tenths

\* Variant: the thresholds tested with >= instead of >
SimilarityAtLeast(n, d, tenths) == 10 * n >= tenths * d

\* similarity > tenths/10 where similarity = n / d is Python's float quotient.
\* n / d is the double nearest the rational n/d and the literals 0.7 and 0.3 are
\* the doubles nearest 7/10 and 3/10; for token counts this small two distinct
\* rationals round to distinct doubles, so the float test is the exact test
\* 10 * n > tenths * d.
SimilarityAbove(n, d, tenths) == 10 * n > tenths * d

HighThreshold == 7

MediumThreshold == 3

\* Variant: the overlap divided by the size of the first set instead of the union
CalculateIngredientOverlapOverFirst(ingredients_a, ingredients_b) ==
    LET ing_a == TokenSet(ingredients_a)
        ing_b == TokenSet(ingredients_b)
        overlap == ing_a \cap ing_b
    IN IF Cardinality(ing_a) = 0
       THEN "Unknown"
       ELSE IF SimilarityAbove(Cardinality(overlap), Cardinality(ing_a), HighThreshold)
       THEN "High similarity"
       ELSE IF SimilarityAbove(Cardinality(overlap), Cardinality(ing_a), MediumThreshold)
       THEN "Medium similarity"
       ELSE "Different formulations"

_calculate_ingredient_overlap(ingredients_a, ingredients_b) ==
    LET ing_a == TokenSet(ingredients_a)
        ing_b == TokenSet(ingredients_b)
        overlap == ing_a \cap ing_b
        total == ing_a \cup ing_b
    IN IF Cardinality(total) = 0
       THEN "Unknown"
       ELSE IF SimilarityAbove(Cardinality(overlap), Cardinality(total), HighThreshold)
       THEN "High similarity"
       ELSE IF SimilarityAbove(Cardinality(overlap), Cardinality(total), MediumThreshold)
       THEN "Medium similarity"
       ELSE "Different formulations"

\* Variant: product A's "all" tested before product B's
DetermineVersatilityAFirst(skin_type_a, skin_type_b) ==
    IF Contains(AllStr, Lower(skin_type_a)) THEN "product_a"
    ELSE IF Contains(AllStr, Lower(skin_type_b)) THEN "product_b"
    ELSE LET count_a == Len(Split(skin_type_a))
             count_b == Len(Split(skin_type_b))
         IN IF count_a > count_b THEN "product_a" ELSE "product_b"

_determine_versatility(skin_type_a, skin_type_b) ==
    IF Contains(AllStr, Lower(skin_type_b)) THEN "product_b"
    ELSE IF Contains(AllStr, Lower(skin_type_a)) THEN "product_a"
    ELSE LET count_a == Len(Split(skin_type_a))
             count_b == Len(Split(skin_type_b))
         IN IF count_a > count_b THEN "product_a" ELSE "product_b"

\* Variant: the cheaper_product test written with <= , unlike better_price
CheaperProductLeq(price_a, price_b, name_a, name_b) ==
    IF price_a <= price_b THEN name_a ELSE name_b

\* "cheaper_product": product_a['name'] if price_a < price_b else product_b['name']
CheaperProduct(price_a, price_b, name_a, name_b) ==
    IF price_a < price_b THEN name_a ELSE name_b

\* Variant: equal prices count for product A
BetterPriceLeq(price_a, price_b) ==
    IF price_a <= price_b THEN "product_a" ELSE "product_b"

\* "better_price": "product_a" if price_a < price_b else "product_b"
BetterPrice(price_a, price_b) ==
    IF price_a < price_b THEN "product_a" ELSE "product_b"

\* Variant: higher_concentration tested with >= , equal values go to product A
HigherConcentrationGeq(conc_a, conc_b, name_a, name_b) ==
    IF conc_a >= conc_b THEN name_a ELSE name_b

\* "higher_concentration": product_a['name'] if conc_a > conc_b else product_b['name']
HigherConcentration(conc_a, conc_b, name_a, name_b) ==
    IF conc_a > conc_b THEN name_a ELSE name_b

\* The keys compare_products subscripts on each product
CompareKeys == {"name", "price", "concentration", "skin_type", "key_ingredients"}

\* product[key] raises KeyError for a key the dict lacks; the first such
\* subscript is product_a['price'], outside any try block
CompareRaisesKeyError(a, b) ==
    \E k \in CompareKeys : k \notin DOMAIN a \/ k \notin DOMAIN b

\* The dict compare_products builds. With every key present no statement of
\* the function raises: _extract_price absorbs a digit-free price and the
\* try/except absorbs a digit-free concentration.
compare_products(a, b) ==
    LET price_a == _extract_price(a.price)
        price_b == _extract_price(b.price)
        conc == ExtractConcentrations(a.concentration, b.concentration)
    IN [product_a_name |-> a.name,
        product_b_name |-> b.name,
        price_a |-> price_a,
        price_b |-> price_b,
        price_diff |-> Abs(price_a - price_b),
        cheaper_product |-> CheaperProduct(price_a, price_b, a.name, b.name),
        better_price |-> BetterPrice(price_a, price_b),
        concentration_a |-> conc.conc_a,
        concentration_b |-> conc.conc_b,
        concentration_diff |-> IntToStr(Abs(conc.conc_a - conc.conc_b)) \o <<"%">>,
        higher_concentration |->
            HigherConcentration(conc.conc_a, conc.conc_b, a.name, b.name),
        skin_type_a |-> a.skin_type,
        skin_type_b |-> b.skin_type,
        skin_type_match |-> _analyze_skin_type_overlap(a.skin_type, b.skin_type),
        ingredients_a |-> a.key_ingredients,
        ingredients_b |-> b.key_ingredients,
        ingredient_similarity |->
            _calculate_ingredient_overlap(a.key_ingredients, b.key_ingredients),
        more_versatile |-> _determine_versatility(a.skin_type, b.skin_type)]

\* label.lower() on the labels _calculate_ingredient_overlap can return
LowerLabel(label) ==
    CASE label = "High similarity" -> "high similarity"
      [] label = "Medium similarity" -> "medium similarity"
      [] label = "Different formulations" -> "different formulations"
      [] label = "Unknown" -> "unknown"

\* generate_comparison_analysis. The text is kept as the sequence of its pieces
\* in order: a template literal or a product name is one piece, an interpolated
\* str or int contributes its characters. Concatenating the pieces gives the
\* returned string.
AnalysisPara1(a, b) ==
    <<"Both ", a.name, " and ", b.name,
      " are skincare serums designed to improve skin health and appearance. ",
      a.name, " features ">> \o a.concentration
    \o <<" and is formulated for ">> \o a.skin_type
    \o <<" skin, while ", b.name, " contains ">> \o b.concentration
    \o <<" and targets ">> \o b.skin_type
    \o <<" skin. These products serve different needs in a comprehensive skincare routine.">>

\* Variant: the price of product A printed whichever product is cheaper
PriceComparisonAlwaysA(c) ==
    <<c.cheaper_product, " is more affordable at ", "₹">> \o IntToStr(c.price_a)

PriceComparison(c) ==
    <<c.cheaper_product, " is more affordable at ", "₹">>
    \o IntToStr(IF c.better_price = "product_a" THEN c.price_a ELSE c.price_b)

ConcComparison(c) ==
    IF c.concentration_a # c.concentration_b
    THEN <<c.higher_concentration, " has a higher concentration">>
    ELSE <<"Both have similar concentrations">>

AnalysisPara2(a, b, c) ==
    <<"Key differences include formulation and targeting. ">>
    \o ConcComparison(c)
    \o <<", which may indicate different potency levels. ",
         "The formulations show ", LowerLabel(c.ingredient_similarity),
         ", with ", a.name, " focusing on ">> \o a.key_ingredients
    \o <<" and ", b.name, " utilizing ">> \o b.key_ingredients
    \o <<". In terms of pricing, ">> \o PriceComparison(c)
    \o <<", making it the more budget-friendly option.">>

AnalysisPara3(a, b, c) ==
    <<IF c.more_versatile = "product_a" THEN a.name ELSE b.name,
      " offers greater versatility in terms of skin type compatibility. For those seeking ">>
    \o Lower(a.benefits)
    \o <<", ", a.name, " is the clear choice, while ", b.name, " excels at ">>
    \o Lower(b.benefits)
    \o <<". The price difference of ", "₹">> \o IntToStr(c.price_diff)
    \o <<" should be weighed against your specific skin concerns and budget constraints.">>

ParagraphBreak == <<"\n\n">>

generate_comparison_analysis(a, b, c) ==
    AnalysisPara1(a, b) \o ParagraphBreak \o AnalysisPara2(a, b, c)
    \o ParagraphBreak \o AnalysisPara3(a, b, c)

----------------------------------------------------------------------------
(* agents/comparison_agent.py                                              *)

\* Variant: the product strings searched without lower-casing them
RecommendForSkinTypeCaseSensitive(a, b, skin_type) ==
    LET a_compatible == Contains(Lower(skin_type), a.skin_type)
        b_compatible == Contains(Lower(skin_type), b.skin_type)
    IN IF a_compatible /\ ~b_compatible THEN a.name
       ELSE IF b_compatible /\ ~a_compatible THEN b.name
       ELSE "Both products suitable"

_recommend_for_skin_type(a, b, skin_type) ==
    LET a_compatible == Contains(Lower(skin_type), Lower(a.skin_type))
        b_compatible == Contains(Lower(skin_type), Lower(b.skin_type))
    IN IF a_compatible /\ ~b_compatible THEN a.name
       ELSE IF b_compatible /\ ~a_compatible THEN b.name
       ELSE "Both products suitable"

\* _recommend_by_price calls int() on the filtered digits with no guard:
\* a price without an ASCII digit raises ValueError.
RecommendByPriceRaises(a, b) ==
    IntRaises(FilterDigits(a.price)) \/ IntRaises(FilterDigits(b.price))

_recommend_by_price(a, b) ==
    LET price_a == ParseDigits(FilterDigits(a.price))
        price_b == ParseDigits(FilterDigits(b.price))
    IN IF price_a < price_b THEN a.name ELSE b.name

\* Variant: the product with the lower concentration is named
RecommendByEffectivenessLower(a, b) ==
    IF IntRaises(ConcDigits(a.concentration)) \/ IntRaises(ConcDigits(b.concentration))
    THEN "Both equally effective"
    ELSE LET conc_a == ParseDigits(ConcDigits(a.concentration))
             conc_b == ParseDigits(ConcDigits(b.concentration))
         IN IF conc_a <= conc_b THEN a.name ELSE b.name

\* Variant: the concentrations compared with > , equal values go to product B
RecommendByEffectivenessStrict(a, b) ==
    IF IntRaises(ConcDigits(a.concentration)) \/ IntRaises(ConcDigits(b.concentration))
    THEN "Both equally effective"
    ELSE LET conc_a == ParseDigits(ConcDigits(a.concentration))
             conc_b == ParseDigits(ConcDigits(b.concentration))
         IN IF conc_a > conc_b THEN a.name ELSE b.name

_recommend_by_effectiveness(a, b) ==
    IF IntRaises(ConcDigits(a.concentration)) \/ IntRaises(ConcDigits(b.concentration))
    THEN "Both equally effective"
    ELSE LET conc_a == ParseDigits(ConcDigits(a.concentration))
             conc_b == ParseDigits(ConcDigits(b.concentration))
         IN IF conc_a >= conc_b THEN a.name ELSE b.name

OilyStr == <<"o", "i", "l", "y">>

SensitiveStr == <<"s", "e", "n", "s", "i", "t", "i", "v", "e">>

\* The dict _generate_recommendations returns when none of its entries raises
_generate_recommendations(a, b) ==
    [for_oily_skin |-> _recommend_for_skin_type(a, b, OilyStr),
     for_sensitive_skin |-> _recommend_for_skin_type(a, b, SensitiveStr),
     for_budget_conscious |-> _recommend_by_price(a, b),
     for_maximum_results |-> _recommend_by_effectiveness(a, b)]

\* Variant: the price factor without its else branch, B never gets the point
PriceScoresNoElse(c) ==
    IF c.better_price = "product_a" THEN [a |-> 1, b |-> 0] ELSE [a |-> 0, b |-> 0]

\* _determine_winner's two scoring steps
PriceScores(c) ==
    IF c.better_price = "product_a" THEN [a |-> 1, b |-> 0] ELSE [a |-> 0, b |-> 1]

VersatilityScores(c) ==
    IF c.more_versatile = "product_a" THEN [a |-> 1, b |-> 0] ELSE [a |-> 0, b |-> 1]

\* Variant: a two-way compare, equal scores go to product A
WinnerOfNoTie(c, sa, sb) ==
    IF sa >= sb THEN c.product_a_name ELSE c.product_b_name

\* The final three-way compare of _determine_winner
WinnerOf(c, sa, sb) ==
    IF sa > sb THEN c.product_a_name
    ELSE IF sb > sa THEN c.product_b_name
    ELSE "Tie - Both excellent choices"

----------------------------------------------------------------------------
(* The product records the engine is run on                                *)

\* Longest generated price string
MaxPriceLen == 2

\* Longest generated concentration string (one past the [:3] slice)
MaxConcLen == 4

\* Most comma-separated tokens in a generated skin-type string
MaxSkinTokens == 2

\* Most comma-separated tokens in a generated ingredient string
MaxIngTokens == 2

StringsUpTo(alphabet, n) == UNION {[1..k -> alphabet] : k \in 0..n}

RECURSIVE JoinComma(_)
JoinComma(tokens) ==
    IF Len(tokens) = 1 THEN tokens[1]
    ELSE tokens[1] \o <<",">> \o JoinComma(Tail(tokens))

TokenLists(tokens, n) == {JoinComma(l) : l \in UNION {[1..k -> tokens] : k \in 1..n}}

\* "a,b,c,..." with the first n letters
FirstLetters(n) == JoinComma([i \in 1..n |-> <<LowerChars[i]>>])

Rupee500 == <<"₹", "5", "0", "0">>
Rupee800 == <<"₹", "8", "0", "0">>
NotAvailable == <<"N", "/", "A">>
Conc10 == <<"1", "0", "%", " ", "X">>
Conc15 == <<"1", "5", "%", " ", "X">>
SkinOily == <<"O", "i", "l", "y">>
SkinAll == <<"A", "l", "l">>
SkinDry == <<"D", "r", "y">>
IngXY == <<"X", ",", "Y">>
IngXZ == <<"X", ",", "Z">>
Glow == <<"G", "l", "o", "w">>

Prices ==
    StringsUpTo({"₹", "1"}, MaxPriceLen)
    \cup {Rupee500, Rupee800, NotAvailable, <<SuperscriptTwo, "5">>}

Concentrations ==
    StringsUpTo({"1", "%"}, MaxConcLen) \cup {Conc10, Conc15, NotAvailable}

SkinTypes ==
    TokenLists({SkinOily, SkinAll, SkinDry}, MaxSkinTokens)
    \cup { <<>>,
           <<"o", "i", "l", "y">>,
           <<"O", "i", "l", "y", ",", " ", "D", "r", "y">>,
           <<"A", " ", "l", "l">>,
           <<"S", "m", "a", "l", "l">>,
           <<"S", "e", "n", "s", "i", "t", "i", "v", "e">> }

Ingredients ==
    TokenLists({<<"X">>, <<"Y">>, <<"Z">>}, MaxIngTokens)
    \cup { <<>>, <<"x", ",", " ", "Y">>,
           FirstLetters(10), FirstLetters(7), FirstLetters(3) }

BaseFields ==
    [price |-> Rupee500, concentration |-> Conc10, skin_type |-> SkinOily,
     key_ingredients |-> IngXY, benefits |-> Glow]

\* Field combinations: one field varied at a time around the base record, the
\* second record of the worked scenario, and digit-free price and
\* concentration together.
FieldSets ==
    {[BaseFields EXCEPT !.price = p] : p \in Prices}
    \cup {[BaseFields EXCEPT !.concentration = c] : c \in Concentrations}
    \cup {[BaseFields EXCEPT !.skin_type = t] : t \in SkinTypes}
    \cup {[BaseFields EXCEPT !.key_ingredients = g] : g \in Ingredients}
    \cup {[price |-> Rupee800, concentration |-> Conc15, skin_type |-> SkinAll,
           key_ingredients |-> IngXZ, benefits |-> Glow],
          [BaseFields EXCEPT !.price = NotAvailable, !.concentration = NotAvailable],
          [BaseFields EXCEPT !.price = <<>>, !.concentration = <<>>]}

Named(f, n) ==
    [name |-> n, price |-> f.price, concentration |-> f.concentration,
     skin_type |-> f.skin_type, key_ingredients |-> f.key_ingredients,
     benefits |-> f.benefits]

----------------------------------------------------------------------------
(* ComparisonAgent.process, one action per call it makes, in its order     *)

\* The orchestrator calls process either with two parsed products under
\* 'product_a' and 'product_b' (two differently named products, or the same
\* record twice), or (one product in the input file) with the single key
\* 'product', for which both data.get(..., {}) give {}.
Init ==
    /\ \/ /\ \E f \in FieldSets : product_a = Named(f, "A")
          /\ \E f \in FieldSets : product_b = Named(f, "B")
       \/ /\ \E f \in FieldSets : product_a = Named(f, "A")
          /\ product_b = product_a
       \/ /\ product_a = EmptyDict
          /\ product_b = EmptyDict
    /\ pc = "start"
    /\ comparison = None
    /\ analysis = <<>>
    /\ recommendations = None
    /\ score_a = 0
    /\ score_b = 0
    /\ winner = "None"
    /\ raised = "None"
    /\ FaqIdle

\* comparison_details = compare_products(product_a, product_b)
Compare ==
    /\ pc = "start"
    /\ ~CompareRaisesKeyError(product_a, product_b)
    /\ comparison' = compare_products(product_a, product_b)
    /\ pc' = "compared"
    /\ UNCHANGED <<product_a, product_b, analysis, recommendations,
                   score_a, score_b, winner, raised>>
    /\ UNCHANGED faqvars

\* compare_products(product_a, product_b) raising: the KeyError is caught
\* nowhere and leaves process
CompareRaises ==
    /\ pc = "start"
    /\ CompareRaisesKeyError(product_a, product_b)
    /\ raised' = "KeyError"
    /\ pc' = "raised"
    /\ UNCHANGED <<product_a, product_b, comparison, analysis, recommendations,
                   score_a, score_b, winner>>
    /\ UNCHANGED faqvars

\* analysis = generate_comparison_analysis(product_a, product_b, comparison_details)
ComposeAnalysis ==
    /\ pc = "compared"
    /\ analysis' = generate_comparison_analysis(product_a, product_b, comparison)
    /\ pc' = "analysed"
    /\ UNCHANGED <<product_a, product_b, comparison, recommendations,
                   score_a, score_b, winner, raised>>
    /\ UNCHANGED faqvars

\* recommendations = self._generate_recommendations(...), returning
Recommend ==
    /\ pc = "analysed"
    /\ ~RecommendByPriceRaises(product_a, product_b)
    /\ recommendations' = _generate_recommendations(product_a, product_b)
    /\ pc' = "recommended"
    /\ UNCHANGED <<product_a, product_b, comparison, analysis,
                   score_a, score_b, winner, raised>>
    /\ UNCHANGED faqvars

\* self._generate_recommendations(...) raising: the ValueError of
\* _recommend_by_price is caught nowhere and leaves process
RecommendRaises ==
    /\ pc = "analysed"
    /\ RecommendByPriceRaises(product_a, product_b)
    /\ raised' = "ValueError"
    /\ pc' = "raised"
    /\ UNCHANGED <<product_a, product_b, comparison, analysis, recommendations,
                   score_a, score_b, winner>>
    /\ UNCHANGED faqvars

\* "winner": self._determine_winner(comparison_details)
DetermineWinner ==
    /\ pc = "recommended"
    /\ score_a' = PriceScores(comparison).a + VersatilityScores(comparison).a
    /\ score_b' = PriceScores(comparison).b + VersatilityScores(comparison).b
    /\ winner' = WinnerOf(comparison, score_a', score_b')
    /\ pc' = "done"
    /\ UNCHANGED <<product_a, product_b, comparison, analysis, recommendations,
                   raised>>
    /\ UNCHANGED faqvars

\* process returned the filled page: the orchestrator saves
\* output/comparison_page.json and prints WORKFLOW COMPLETE
SaveComparisonPage ==
    /\ pc = "done"
    /\ pc' = "complete"
    /\ UNCHANGED <<product_a, product_b, comparison, analysis, recommendations,
                   score_a, score_b, winner, raised>>
    /\ UNCHANGED faqvars

Next ==
    \/ Compare
    \/ CompareRaises
    \/ ComposeAnalysis
    \/ Recommend
    \/ RecommendRaises
    \/ DetermineWinner
    \/ SaveComparisonPage

Spec == Init /\ [][Next]_vars

(***************************************************************************)
(* FAQAgent.process as the orchestrator calls it in Step 3                 *)

\* dict.get(key, default)
Get(d, k, default) == IF k \in DOMAIN d THEN d[k] ELSE default

\* An interpolated text field of the product, or the default literal
TextOr(d, k, default) == IF k \in DOMAIN d THEN d[k] ELSE <<default>>

\* The substrings _try_rule_based_answer looks for in the lower-cased question
PriceKey == <<"p", "r", "i", "c", "e">>
SideEffectsKey == <<"s", "i", "d", "e", " ", "e", "f", "f", "e", "c", "t", "s">>
SideEffectKey == <<"s", "i", "d", "e", " ", "e", "f", "f", "e", "c", "t">>
HowToUseKey == <<"h", "o", "w", " ", "t", "o", " ", "u", "s", "e">>
HowDoIApplyKey == <<"h", "o", "w", " ", "d", "o", " ", "i", " ", "a", "p", "p", "l", "y">>
SkinTypeKey == <<"s", "k", "i", "n", " ", "t", "y", "p", "e">>
IngredientsKey == <<"i", "n", "g", "r", "e", "d", "i", "e", "n", "t", "s">>
BenefitsKey == <<"b", "e", "n", "e", "f", "i", "t", "s">>
WhatDoesItDoKey == <<"w", "h", "a", "t", " ", "d", "o", "e", "s", " ", "i", "t", " ", "d", "o">>
ConcentrationKey == <<"c", "o", "n", "c", "e", "n", "t", "r", "a", "t", "i", "o", "n">>

\* _try_rule_based_answer: the answer as the sequence of its pieces (a template
\* literal or the product name is one piece, a text field its characters);
\* the empty sequence is the empty string, no rule matched.
_try_rule_based_answer(question_data, pd) ==
    LET question == Lower(question_data.question)
    IN IF Contains(PriceKey, question)
       THEN <<"The price of ", Get(pd, "name", "this product"), " is ">>
            \o TextOr(pd, "price", "available on request") \o <<".">>
       ELSE IF Contains(SideEffectsKey, question) \/ Contains(SideEffectKey, question)
       THEN <<"The known side effects are: ">>
            \o TextOr(pd, "side_effects", "Please consult product label") \o <<".">>
       ELSE IF Contains(HowToUseKey, question) \/ Contains(HowDoIApplyKey, question)
       THEN <<"Usage instructions: ">>
            \o TextOr(pd, "how_to_use", "Follow product instructions") \o <<".">>
       ELSE IF Contains(SkinTypeKey, question)
       THEN <<Get(pd, "name", "This product"), " is suitable for ">>
            \o TextOr(pd, "skin_type", "various") \o <<" skin.">>
       ELSE IF Contains(IngredientsKey, question)
       THEN <<"The key ingredients in ", Get(pd, "name", "this product"), " are: ">>
            \o TextOr(pd, "key_ingredients", "listed on packaging") \o <<".">>
       ELSE IF Contains(BenefitsKey, question) \/ Contains(WhatDoesItDoKey, question)
       THEN <<Get(pd, "name", "This product"), " provides the following benefits: ">>
            \o TextOr(pd, "benefits", "multiple skin benefits") \o <<".">>
       ELSE IF Contains(ConcentrationKey, question)
       THEN <<Get(pd, "name", "This product"), " contains ">>
            \o TextOr(pd, "concentration", "active ingredients") \o <<".">>
       ELSE <<>>

\* q.get("category", "")
CategoryOf(q) == Get(q, "category", "")

\* First pass of _select_top_questions over questions[i..]: a question is
\* taken when its category has not been seen and fewer than count are selected
RECURSIVE FirstPass(_, _, _, _, _)
FirstPass(qs, i, sel, categories_seen, n) ==
    IF i > Len(qs) THEN sel
    ELSE IF CategoryOf(qs[i]) \notin categories_seen /\ Len(sel) < n
         THEN FirstPass(qs, i + 1, Append(sel, qs[i]),
                        categories_seen \cup {CategoryOf(qs[i])}, n)
         ELSE FirstPass(qs, i + 1, sel, categories_seen, n)

\* Second pass over questions[i..]: a question is taken when no equal
\* question is selected yet and fewer than count are selected
RECURSIVE SecondPass(_, _, _, _)
SecondPass(qs, i, sel, n) ==
    IF i > Len(qs) THEN sel
    ELSE IF (\A k \in 1..Len(sel) : sel[k] # qs[i]) /\ Len(sel) < n
         THEN SecondPass(qs, i + 1, Append(sel, qs[i]), n)
         ELSE SecondPass(qs, i + 1, sel, n)

\* selected[:count] for count >= 0
Truncate(sel, n) == SubSeq(sel, 1, Min(n, Len(sel)))

\* Variant: the first count questions in input order, categories not looked at
SelectTopQuestionsInputOrder(qs, n) == Truncate(qs, n)

_select_top_questions(qs, n) ==
    LET first == FirstPass(qs, 1, <<>>, {}, n)
        remaining == n - Len(first)
    IN Truncate(IF remaining > 0 THEN SecondPass(qs, 1, first, n) ELSE first, n)

\* What OllamaClient.generate returns, stripped: a text the model does not
\* look into, or the empty string after a failed call
LlmAnswers == {<<"llm answer">>, <<>>}

\* datetime.now().isoformat()
Timestamps == {"t1", "t2"}

\* FAQTemplate.fill
FaqTemplateFill(d) ==
    [page_type |-> Get(d, "page_type", "FAQ"),
     title |-> Get(d, "title", ""),
     product_name |-> Get(d, "product_name", ""),
     questions |-> Get(d, "questions", <<>>),
     total_questions |-> Get(d, "total_questions", 0),
     generated_at |-> Get(d, "generated_at", "")]

(* Inputs of the FAQ agent *)

MaxQuestions == 3
MaxCount == 3

\* The count FAQAgent.process passes to _select_top_questions
TopCount == 5

PriceQuestion == <<"P", "r", "i", "c", "e", "?">>
SkinTypeQuestion == <<"S", "k", "i", "n", " ", "t", "y", "p", "e", "?">>
OtherQuestion == <<"W", "h", "y", "?">>

\* Question dicts: two of one category, one of another, one the category of
\* which is the empty string and one without the key 'category'
QuestionPool ==
    { [question |-> PriceQuestion, category |-> "Purchase"],
      [question |-> OtherQuestion, category |-> "Purchase"],
      [question |-> SkinTypeQuestion, category |-> "Informational"],
      [question |-> OtherQuestion, category |-> ""],
      [question |-> OtherQuestion] }

QuestionLists ==
    UNION {[1..n -> QuestionPool] : n \in 0..MaxQuestions}

\* ParserAgent.process output for the first product of the input file
ParsedProduct(f, n) ==
    [product_id |-> "GLOW_001", name |-> n, concentration |-> f.concentration,
     skin_type |-> f.skin_type, key_ingredients |-> f.key_ingredients,
     benefits |-> f.benefits, how_to_use |-> <<"U">>, side_effects |-> <<"S">>,
     price |-> f.price]

FaqProducts == {ParsedProduct(BaseFields, "A"), ParsedProduct(BaseFields, "")}

\* The comparison agent has not been called
ComparisonIdle ==
    /\ product_a = EmptyDict
    /\ product_b = EmptyDict
    /\ pc = "idle"
    /\ comparison = None
    /\ analysis = <<>>
    /\ recommendations = None
    /\ score_a = 0
    /\ score_b = 0
    /\ winner = "None"
    /\ raised = "None"

\* Step 3 of the workflow: the orchestrator calls FAQAgent.process with the
\* generated questions under 'questions' and products[0] under 'product'.
\* process passes the count 5; the smaller counts exercise
\* _select_top_questions on lists longer than the count.
FaqInit ==
    /\ first_product \in FaqProducts
    /\ \E qs \in QuestionLists : data = [questions |-> qs, product |-> first_product]
    /\ count \in (0..MaxCount) \cup {TopCount}
    /\ questions = <<>>
    /\ product_data = <<>>
    /\ selected = <<>>
    /\ faq_items = <<>>
    /\ faq_page = None
    /\ faq_pc = "start"
    /\ ComparisonIdle

\* questions = data.get("questions", []); product_data = data.get("product_data", {})
FaqReadInput ==
    /\ faq_pc = "start"
    /\ questions' = Get(data, "questions", <<>>)
    /\ product_data' = Get(data, "product_data", EmptyDict)
    /\ faq_pc' = "select"
    /\ UNCHANGED <<first_product, data, count, selected, faq_items, faq_page>>
    /\ UNCHANGED vars

\* selected_questions = self._select_top_questions(questions, count)
SelectTopQuestions ==
    /\ faq_pc = "select"
    /\ selected' = _select_top_questions(questions, count)
    /\ faq_pc' = "answer"
    /\ UNCHANGED <<first_product, data, count, questions, product_data,
                   faq_items, faq_page>>
    /\ UNCHANGED vars

\* One iteration of the answer loop: the rule-based answer, or the LLM's when
\* no rule matched
AnswerQuestion ==
    /\ faq_pc = "answer"
    /\ Len(faq_items) < Len(selected)
    /\ LET q_data == selected[Len(faq_items) + 1]
           rule == _try_rule_based_answer(q_data, product_data)
       IN /\ "category" \in DOMAIN q_data
          /\ \E llm \in LlmAnswers :
                faq_items' = Append(faq_items,
                    [question |-> q_data.question,
                     answer |-> IF rule # <<>> THEN rule ELSE llm,
                     category |-> q_data.category])
    /\ UNCHANGED <<first_product, data, count, questions, product_data,
                   selected, faq_page, faq_pc>>
    /\ UNCHANGED vars

\* q_data['category'] on a question without that key raises KeyError
AnswerRaises ==
    /\ faq_pc = "answer"
    /\ Len(faq_items) < Len(selected)
    /\ "category" \notin DOMAIN selected[Len(faq_items) + 1]
    /\ faq_pc' = "raised"
    /\ UNCHANGED <<first_product, data, count, questions, product_data,
                   selected, faq_items, faq_page>>
    /\ UNCHANGED vars

\* faq_data is built and passed through the template
BuildFaqPage ==
    /\ faq_pc = "answer"
    /\ Len(faq_items) = Len(selected)
    /\ \E t \in Timestamps :
          faq_page' = FaqTemplateFill(
              [page_type |-> "FAQ",
               title |-> "Frequently Asked Questions",
               product_name |-> Get(product_data, "name", ""),
               questions |-> faq_items,
               total_questions |-> Len(faq_items),
               generated_at |-> t])
    /\ faq_pc' = "complete"
    /\ UNCHANGED <<first_product, data, count, questions, product_data,
                   selected, faq_items>>
    /\ UNCHANGED vars

FaqNext ==
    \/ FaqReadInput
    \/ SelectTopQuestions
    \/ AnswerQuestion
    \/ AnswerRaises
    \/ BuildFaqPage

FaqSpec == FaqInit /\ [][FaqNext]_<<vars, faqvars>>

----------------------------------------------------------------------------
(* Properties                                                              *)

\* compare_products has returned: comparison holds its result
Compared ==
    /\ pc \in {"compared", "analysed", "recommended", "raised", "done", "complete"}
    /\ raised # "KeyError"

\* Every field of both records is present as a string
FieldsPresent == product_a # EmptyDict /\ product_b # EmptyDict

TieLabel == "Tie - Both excellent choices"

ScenarioA == Named(BaseFields, "A")

ScenarioB ==
    [name |-> "B", price |-> Rupee800, concentration |-> Conc15,
     skin_type |-> SkinAll, key_ingredients |-> IngXZ, benefits |-> Glow]

IsScenario == product_a = ScenarioA /\ product_b = ScenarioB

\* C1: on the worked scenario (A: Rs 500, "10% X", "Oily"; B: Rs 800, "15% X",
\* "All") compare yields price_a=500, price_b=800, price_diff=300,
\* cheaper_product="A", better_price="product_a", concentration_a=10,
\* concentration_b=15, higher_concentration="B", skin_type_match="One product
\* suits all skin types", more_versatile="product_b", and winner scores one
\* point each and returns the tie string.
C1_ScenarioResult ==
    IsScenario =>
        /\ Compared =>
              /\ comparison.price_a = 500
              /\ comparison.price_b = 800
              /\ comparison.price_diff = 300
              /\ comparison.cheaper_product = "A"
              /\ comparison.better_price = "product_a"
              /\ comparison.concentration_a = 10
              /\ comparison.concentration_b = 15
              /\ comparison.higher_concentration = "B"
              /\ comparison.skin_type_match = "One product suits all skin types"
              /\ comparison.more_versatile = "product_b"
        /\ pc # "raised"
        /\ pc = "done" => score_a = 1 /\ score_b = 1 /\ winner = TieLabel

C1_Witness == IsScenario /\ pc = "done" /\ winner = TieLabel

IsIngredientScenario ==
    /\ FieldsPresent
    /\ product_a.key_ingredients = IngXY
    /\ product_b.key_ingredients = IngXZ

\* C2 as stated: for ingredient lists "X,Y" and "X,Z" the ingredient_similarity
\* label is "Different formulations".
C2_Original ==
    (IsIngredientScenario /\ Compared) =>
        comparison.ingredient_similarity = "Different formulations"

\* C2 amended: for ingredient lists "X,Y" and "X,Z" the token sets are {x,y}
\* and {x,z}, one shared token out of three (Jaccard 1/3), and since 1/3 > 0.3
\* the ingredient_similarity label is "Medium similarity".
C2_MediumSimilarity ==
    (IsIngredientScenario /\ Compared) =>
        /\ TokenSet(product_a.key_ingredients) = {<<"x">>, <<"y">>}
        /\ TokenSet(product_b.key_ingredients) = {<<"x">>, <<"z">>}
        /\ comparison.ingredient_similarity = "Medium similarity"

C2_Witness ==
    /\ IsIngredientScenario
    /\ pc = "compared"
    /\ comparison.ingredient_similarity = "Medium similarity"

\* C3: for every pair of records with all fields present as strings, digit-free
\* price or concentration strings included, compare, compose_analysis,
\* recommend and winner each return a value and none raises.
C3_NeverRaises == FieldsPresent => (raised = "None" /\ pc # "raised")

ContainsAll(s) == Contains(AllStr, Lower(s))

C4_Rest ==
    /\ comparison.price_diff = 0
    /\ comparison.concentration_diff = <<"0", "%">>
    /\ comparison.ingredient_similarity = "High similarity"

\* C4 as stated: for every record a, compare(a, a) yields price_diff=0,
\* concentration_diff="0%", skin_type_match="Identical skin type targeting"
\* and ingredient_similarity="High similarity".
C4_Original ==
    (product_a = product_b /\ Compared) =>
        /\ C4_Rest
        /\ comparison.skin_type_match = "Identical skin type targeting"

\* C4 amended: for every record a, compare(a, a) yields price_diff=0,
\* concentration_diff="0%" and ingredient_similarity="High similarity";
\* skin_type_match is "Identical skin type targeting" when a's skin-type string
\* does not contain "all" (case-insensitive) and "One product suits all skin
\* types" when it does.
C4_SelfCompare ==
    (product_a = product_b /\ Compared) =>
        /\ C4_Rest
        /\ comparison.skin_type_match =
              IF ContainsAll(product_a.skin_type)
              THEN "One product suits all skin types"
              ELSE "Identical skin type targeting"

C4_Witness ==
    /\ product_a = product_b
    /\ pc = "compared"
    /\ ContainsAll(product_a.skin_type)
    /\ comparison.skin_type_match = "One product suits all skin types"

Point(cond) == IF cond THEN 1 ELSE 0

\* C5: winner gives one point for price to the side better_price names and one
\* point for versatility to the side more_versatile names, returns A's name
\* when A has strictly more points, B's name when B has strictly more, the tie
\* string when equal; so a name is returned only when better_price and
\* more_versatile name the same side.
C5_WinnerScoring ==
    pc = "done" =>
        /\ score_a = Point(comparison.better_price = "product_a")
                     + Point(comparison.more_versatile = "product_a")
        /\ score_b = Point(comparison.better_price = "product_b")
                     + Point(comparison.more_versatile = "product_b")
        /\ score_a + score_b = 2
        /\ score_a > score_b => winner = product_a.name
        /\ score_b > score_a => winner = product_b.name
        /\ score_a = score_b => winner = TieLabel
        /\ winner # TieLabel =>
              comparison.better_price = comparison.more_versatile

C5_Witness ==
    /\ pc = "done"
    /\ winner = product_b.name
    /\ product_a.name # product_b.name
    /\ comparison.better_price = "product_b"
    /\ comparison.more_versatile = "product_b"

\* C6: price_diff = |price_a - price_b|; cheaper_product is A's name when
\* price_a < price_b and B's name otherwise (equal prices give B); better_price
\* is "product_a" exactly when cheaper_product was taken from side A and
\* "product_b" otherwise, so both fields name the same side.
C6_PriceFields ==
    Compared =>
        LET pa == comparison.price_a
            pb == comparison.price_b
        IN /\ comparison.price_diff = (IF pa >= pb THEN pa - pb ELSE pb - pa)
           /\ pa < pb => /\ comparison.cheaper_product = product_a.name
                         /\ comparison.better_price = "product_a"
           /\ pa >= pb => /\ comparison.cheaper_product = product_b.name
                          /\ comparison.better_price = "product_b"

C6_Witness ==
    /\ pc = "compared"
    /\ comparison.price_a = comparison.price_b
    /\ comparison.price_a > 0
    /\ product_a.name # product_b.name
    /\ comparison.cheaper_product = product_b.name
    /\ comparison.better_price = "product_b"

\* No ASCII digit among the first three characters of s
NoDigitInPrefix(s) == \A i \in 1..Len(s) : i <= 3 => ~IsDigit(s[i])

\* C7: if the first three characters of either concentration string hold no
\* digit, compare sets concentration_a and concentration_b both to 0 (even when
\* the other side is a valid number), concentration_diff is "0%", and compare
\* returns without an error.
C7_ConcentrationDefault ==
    (/\ FieldsPresent
     /\ pc # "start"
     /\ \/ NoDigitInPrefix(product_a.concentration)
        \/ NoDigitInPrefix(product_b.concentration)) =>
          /\ Compared
          /\ pc = "compared" => raised = "None"
          /\ comparison.concentration_a = 0
          /\ comparison.concentration_b = 0
          /\ comparison.concentration_diff = <<"0", "%">>

C7_Witness ==
    /\ pc = "compared"
    /\ NoDigitInPrefix(product_a.concentration)
    /\ product_b.concentration = Conc10
    /\ comparison.concentration_b = 0

\* C8: the skin-type label is "One product suits all skin types" if either raw
\* string contains "all" (case-insensitive), even for identical strings;
\* otherwise "Different target skin types" if the lower-cased, space-stripped
\* token sets are disjoint; otherwise "Identical skin type targeting" if the
\* token sets are equal; otherwise "Partial overlap in skin types".
C8_SkinTypeLabel ==
    Compared =>
        LET ta == TokenSet(product_a.skin_type)
            tb == TokenSet(product_b.skin_type)
        IN comparison.skin_type_match =
              CASE ContainsAll(product_a.skin_type) \/ ContainsAll(product_b.skin_type)
                     -> "One product suits all skin types"
                [] OTHER ->
                     CASE ta \cap tb = {} -> "Different target skin types"
                       [] OTHER ->
                            CASE ta = tb -> "Identical skin type targeting"
                              [] OTHER -> "Partial overlap in skin types"

C8_Witness ==
    /\ pc = "compared"
    /\ product_a.skin_type = product_b.skin_type
    /\ ContainsAll(product_a.skin_type)
    /\ comparison.skin_type_match = "One product suits all skin types"

\* |intersection| and |union| of the two ingredient token sets
IngOverlapCount ==
    Cardinality(TokenSet(product_a.key_ingredients)
                \cap TokenSet(product_b.key_ingredients))

IngTotalCount ==
    Cardinality(TokenSet(product_a.key_ingredients)
                \cup TokenSet(product_b.key_ingredients))

\* C9: with similarity = |intersection| / |union| of the ingredient token sets,
\* similarity strictly above 0.7 gives "High similarity", otherwise strictly
\* above 0.3 gives "Medium similarity", otherwise "Different formulations";
\* exactly 7/10 gives "Medium similarity", exactly 3/10 "Different formulations".
C9_IngredientThresholds ==
    Compared =>
        LET n == IngOverlapCount
            d == IngTotalCount
            label == comparison.ingredient_similarity
        IN /\ d > 0
           /\ 10 * n > 7 * d => label = "High similarity"
           /\ (10 * n <= 7 * d /\ 10 * n > 3 * d) => label = "Medium similarity"
           /\ 10 * n <= 3 * d => label = "Different formulations"
           /\ 10 * n = 7 * d => label = "Medium similarity"
           /\ 10 * n = 3 * d => label = "Different formulations"

C9_Witness ==
    /\ pc = "compared"
    /\ IngOverlapCount = 7
    /\ IngTotalCount = 10
    /\ comparison.ingredient_similarity = "Medium similarity"

\* The ingredient names of s: its comma-separated tokens other than the empty one
IngredientNames(s) == TokenSet(s) \ {<<>>}

C11_OverlapSymmetric ==
    Compared =>
        /\ comparison.skin_type_match =
              _analyze_skin_type_overlap(product_b.skin_type, product_a.skin_type)
        /\ comparison.ingredient_similarity =
              _calculate_ingredient_overlap(product_b.key_ingredients,
                                            product_a.key_ingredients)

C11_Witness ==
    /\ pc = "compared"
    /\ Cardinality(TokenSet(product_a.key_ingredients))
          < Cardinality(TokenSet(product_b.key_ingredients))
    /\ comparison.ingredient_similarity = "Medium similarity"
    /\ _calculate_ingredient_overlap(product_b.key_ingredients,
                                     product_a.key_ingredients) = "Medium similarity"

\* Number of comma-separated pieces of the raw string: its commas plus one
CommaPieces(s) == Cardinality({i \in 1..Len(s) : s[i] = ","}) + 1

\* C12: more_versatile is "product_b" whenever B's skin-type string contains
\* "all" (case-insensitive), also when A's does too; otherwise "product_a" if
\* A's contains "all"; otherwise "product_a" exactly when A has strictly more
\* comma-separated skin-type tokens than B, and "product_b" otherwise.
C12_MoreVersatile ==
    Compared =>
        LET sa == product_a.skin_type
            sb == product_b.skin_type
            mv == comparison.more_versatile
        IN /\ ContainsAll(sb) => mv = "product_b"
           /\ (~ContainsAll(sb) /\ ContainsAll(sa)) => mv = "product_a"
           /\ (~ContainsAll(sb) /\ ~ContainsAll(sa)) =>
                 /\ CommaPieces(sa) > CommaPieces(sb) => mv = "product_a"
                 /\ CommaPieces(sa) <= CommaPieces(sb) => mv = "product_b"

C12_Witness ==
    /\ pc = "compared"
    /\ ContainsAll(product_a.skin_type)
    /\ ContainsAll(product_b.skin_type)
    /\ comparison.more_versatile = "product_b"

\* C13: higher_concentration is A's name exactly when concentration_a is
\* strictly greater than concentration_b, and B's name otherwise (equal
\* concentrations give B).
C13_HigherConcentration ==
    Compared =>
        /\ comparison.concentration_a > comparison.concentration_b =>
              comparison.higher_concentration = product_a.name
        /\ comparison.concentration_a <= comparison.concentration_b =>
              comparison.higher_concentration = product_b.name

C13_Witness ==
    /\ pc = "compared"
    /\ product_a.name # product_b.name
    /\ comparison.concentration_a = comparison.concentration_b
    /\ comparison.concentration_a > 0
    /\ comparison.higher_concentration = product_b.name

\* _generate_recommendations has returned: recommendations holds its result
Recommended == pc \in {"recommended", "done", "complete"}

\* _generate_recommendations was called and has returned or raised
RecommendCalled == Recommended \/ (pc = "raised" /\ raised = "ValueError")

\* The first three characters of s
Prefix3(s) == SubSeq(s, 1, IF Len(s) < 3 THEN Len(s) ELSE 3)

\* The base-10 number spelled by the ASCII digits of s in their order, every
\* other character skipped; 0 when s has no ASCII digit
RECURSIVE DigitsValue(_)
DigitsValue(s) ==
    IF s = <<>> THEN 0
    ELSE LET c == s[Len(s)]
             front == SubSeq(s, 1, Len(s) - 1)
         IN IF c \in {"0", "1", "2", "3", "4", "5", "6", "7", "8", "9"}
            THEN 10 * DigitsValue(front) + (CHOOSE v \in 0..9 : DigitChars[v + 1] = c)
            ELSE DigitsValue(front)

\* C14: for_maximum_results is A's name when A's concentration (digits of the
\* first 3 characters) is greater than or equal to B's, B's name when it is
\* strictly smaller, and "Both equally effective" whenever the first 3
\* characters of either concentration string hold no digit.
C14_MaximumResults ==
    Recommended =>
        LET ca == product_a.concentration
            cb == product_b.concentration
            r == recommendations.for_maximum_results
        IN IF NoDigitInPrefix(ca) \/ NoDigitInPrefix(cb)
           THEN r = "Both equally effective"
           ELSE /\ DigitsValue(Prefix3(ca)) >= DigitsValue(Prefix3(cb)) =>
                      r = product_a.name
                /\ DigitsValue(Prefix3(ca)) < DigitsValue(Prefix3(cb)) =>
                      r = product_b.name

C14_Witness ==
    /\ Recommended
    /\ ~NoDigitInPrefix(product_a.concentration)
    /\ NoDigitInPrefix(product_b.concentration)
    /\ recommendations.for_maximum_results = "Both equally effective"

\* C15: for_budget_conscious is A's name exactly when A's extracted price
\* (extract_number, no digits meaning 0) is strictly lower than B's, and B's
\* name otherwise; on the scenario A = Rs 500, B = Rs 800 it is "A".
C15_BudgetConscious ==
    (FieldsPresent /\ RecommendCalled) =>
        /\ pc # "raised"
        /\ recommendations.for_budget_conscious =
              IF DigitsValue(product_a.price) < DigitsValue(product_b.price)
              THEN product_a.name ELSE product_b.name
        /\ IsScenario => recommendations.for_budget_conscious = "A"

\* The recommendation the claim gives for target skin type t
SkinTypeRule(t) ==
    LET in_a == Contains(t, Lower(product_a.skin_type))
        in_b == Contains(t, Lower(product_b.skin_type))
    IN CASE in_a /\ ~in_b -> product_a.name
         [] in_b /\ ~in_a -> product_b.name
         [] OTHER -> "Both products suitable"

\* C16: for target skin type t ("oily" or "sensitive") the recommendation is
\* A's name if A's skin-type string contains t (case-insensitive substring)
\* and B's does not, B's name if B's contains t and A's does not, and "Both
\* products suitable" otherwise, also when neither contains t.
C16_SkinTypeRecommendation ==
    Recommended =>
        /\ recommendations.for_oily_skin = SkinTypeRule(<<"o", "i", "l", "y">>)
        /\ recommendations.for_sensitive_skin =
              SkinTypeRule(<<"s", "e", "n", "s", "i", "t", "i", "v", "e">>)

C16_Witness ==
    /\ Recommended
    /\ product_a.name # product_b.name
    /\ product_a.skin_type = SkinOily
    /\ ~Contains(<<"o", "i", "l", "y">>, Lower(product_b.skin_type))
    /\ recommendations.for_oily_skin = product_a.name
    /\ recommendations.for_sensitive_skin = "Both products suitable"

\* C17: extract_number returns the base-10 integer formed by the ASCII digits
\* 0-9 of its input in their order, ignoring every other character (currency
\* symbols, separators, letters, non-ASCII digits), returns 0 when there is
\* no ASCII digit, and does not raise.
C17_ExtractNumber ==
    (FieldsPresent /\ pc # "start") =>
        /\ Compared
        /\ comparison.price_a = DigitsValue(product_a.price)
        /\ comparison.price_b = DigitsValue(product_b.price)
        /\ (\A i \in 1..Len(product_a.price) : ~IsDigit(product_a.price[i])) =>
              comparison.price_a = 0

C17_Witness ==
    /\ pc = "compared"
    /\ product_a.price = <<SuperscriptTwo, "5">>
    /\ comparison.price_a = 5

\* C18: concentration extraction looks only at the first 3 characters: when
\* both sides have a digit there, concentration_a and concentration_b are the
\* integers formed by the digits among those 3 characters, and characters from
\* position 4 on never change the result.
C18_ConcentrationPrefix ==
    (Compared /\ ~NoDigitInPrefix(product_a.concentration)
              /\ ~NoDigitInPrefix(product_b.concentration)) =>
        /\ comparison.concentration_a = DigitsValue(Prefix3(product_a.concentration))
        /\ comparison.concentration_b = DigitsValue(Prefix3(product_b.concentration))

C18_Witness ==
    /\ pc = "compared"
    /\ ~NoDigitInPrefix(product_b.concentration)
    /\ Len(product_a.concentration) >= 4
    /\ IsDigit(product_a.concentration[4])
    /\ DigitsValue(product_a.concentration) # DigitsValue(Prefix3(product_a.concentration))
    /\ comparison.concentration_a = DigitsValue(Prefix3(product_a.concentration))
    /\ comparison.concentration_a > 0

\* generate_comparison_analysis has returned: analysis holds the text
Analysed == analysis # <<>>

\* Positions of the blank lines that separate the paragraphs
BreakPositions == {i \in 1..Len(analysis) : analysis[i] = "\n\n"}

\* Position of the phrase that follows cheaper_product in the text
AffordablePositions ==
    {i \in 1..Len(analysis) : analysis[i] = " is more affordable at "}

\* The characters printed between the rupee sign after the phrase at
\* position i and the clause that closes the sentence
PrintedPrice(i) ==
    LET j == CHOOSE k \in (i + 2)..Len(analysis) :
                 analysis[k] = ", making it the more budget-friendly option."
    IN SubSeq(analysis, i + 2, j - 1)

\* C19: compose_analysis returns exactly three paragraphs joined by blank
\* lines, and in paragraph 2 the price printed next to cheaper_product is that
\* product's extracted price (price_a when better_price is "product_a",
\* price_b otherwise), which equals min(price_a, price_b).
C19_AnalysisPrice ==
    Analysed =>
        /\ Cardinality(BreakPositions) = 2
        /\ Cardinality(AffordablePositions) = 1
        /\ \A i \in AffordablePositions :
              /\ \E lo \in BreakPositions : lo < i
              /\ \E hi \in BreakPositions : i < hi
              /\ analysis[i - 1] = comparison.cheaper_product
              /\ analysis[i + 1] = "₹"
              /\ PrintedPrice(i) # <<>>
              /\ \A k \in 1..Len(PrintedPrice(i)) : IsDigit(PrintedPrice(i)[k])
              /\ DigitsValue(PrintedPrice(i)) =
                    (IF comparison.better_price = "product_a"
                     THEN comparison.price_a ELSE comparison.price_b)
              /\ DigitsValue(PrintedPrice(i)) =
                    Min(comparison.price_a, comparison.price_b)

C19_Witness ==
    /\ pc = "analysed"
    /\ product_a.name # product_b.name
    /\ comparison.price_b < comparison.price_a
    /\ comparison.cheaper_product = product_b.name
    /\ \E i \in AffordablePositions :
          DigitsValue(PrintedPrice(i)) = comparison.price_b

\* C20: when the input file holds exactly one product, Step 5 builds a
\* comparison page without raising, the page is saved and the run reaches
\* WORKFLOW COMPLETE.
C20_SingleProductCompletes ==
    (product_a = EmptyDict /\ product_b = EmptyDict /\ pc # "start") =>
        /\ raised = "None"
        /\ pc # "raised"

\* The two products carry different names
DistinctNames == FieldsPresent /\ product_a.name # product_b.name

\* Both concentration strings have a digit among their first 3 characters
BothConcentrationsParse ==
    /\ ~NoDigitInPrefix(product_a.concentration)
    /\ ~NoDigitInPrefix(product_b.concentration)

\* C23: the concentration verdicts of compare and recommend agree only off
\* the tie: with distinct names and both concentrations parsing,
\* for_maximum_results equals higher_concentration whenever concentration_a
\* differs from concentration_b, and on equal concentrations
\* for_maximum_results is A's name while higher_concentration is B's name.
C23_ConcentrationVerdicts ==
    (Recommended /\ DistinctNames /\ BothConcentrationsParse) =>
        /\ comparison.concentration_a # comparison.concentration_b =>
              recommendations.for_maximum_results = comparison.higher_concentration
        /\ comparison.concentration_a = comparison.concentration_b =>
              /\ recommendations.for_maximum_results = product_a.name
              /\ comparison.higher_concentration = product_b.name

C23_Witness ==
    /\ Recommended
    /\ DistinctNames
    /\ BothConcentrationsParse
    /\ comparison.concentration_a = comparison.concentration_b
    /\ product_a.concentration # product_b.concentration
    /\ recommendations.for_maximum_results # comparison.higher_concentration

\* _determine_winner has returned
WinnerDetermined == pc \in {"done", "complete"}

\* C24: with distinct names, winner is A's name only if price_a is strictly
\* lower than price_b and more_versatile is "product_a"; whenever the two
\* extracted prices are equal, winner is B's name or the tie string and never
\* A's name.
C24_WinnerNeedsCheaperA ==
    (WinnerDetermined /\ DistinctNames) =>
        /\ winner = product_a.name =>
              /\ comparison.price_a < comparison.price_b
              /\ comparison.more_versatile = "product_a"
        /\ comparison.price_a = comparison.price_b =>
              /\ winner \in {product_b.name, TieLabel}
              /\ winner # product_a.name

C24_Witness ==
    /\ pc = "done"
    /\ DistinctNames
    /\ comparison.price_a = comparison.price_b
    /\ comparison.more_versatile = "product_a"
    /\ winner = TieLabel

\* C25: the token sets built by splitting the ingredient strings on commas
\* are never empty (an empty string yields the single empty token), so the
\* union is never empty, the label "Unknown" is never returned, and two empty
\* ingredient strings are labelled "High similarity".
C25_UnknownNeverReturned ==
    Compared =>
        LET ing_a == TokenSet(product_a.key_ingredients)
            ing_b == TokenSet(product_b.key_ingredients)
        IN /\ ing_a # {}
           /\ ing_b # {}
           /\ product_a.key_ingredients = <<>> => ing_a = {<<>>}
           /\ product_b.key_ingredients = <<>> => ing_b = {<<>>}
           /\ ing_a \cup ing_b # {}
           /\ comparison.ingredient_similarity # "Unknown"
           /\ (product_a.key_ingredients = <<>> /\ product_b.key_ingredients = <<>>) =>
                 comparison.ingredient_similarity = "High similarity"

C25_Witness ==
    /\ pc = "compared"
    /\ DistinctNames
    /\ product_a.key_ingredients = <<>>
    /\ product_b.key_ingredients = <<>>
    /\ comparison.ingredient_similarity = "High similarity"

\* FAQAgent.process has read its input
FaqInputRead == faq_pc \in {"select", "answer", "raised", "complete"}

\* C21: the FAQ page of Step 3 is built from the first parsed product: the
\* record the orchestrator hands to the FAQ agent is the record the agent
\* uses for its rule-based answers and for product_name, so product_name
\* equals the first product's name.
C21_FaqUsesFirstProduct ==
    /\ FaqInputRead => product_data = first_product
    /\ faq_pc = "complete" => faq_page.product_name = first_product.name

\* _select_top_questions has returned
QuestionsSelected == faq_pc \in {"answer", "raised", "complete"}

\* The questions of the input that are the first of their category
CategoryFirsts ==
    {questions[i] : i \in {k \in 1..Len(questions) :
        \A j \in 1..(k - 1) : CategoryOf(questions[j]) # CategoryOf(questions[k])}}

\* Position of the first occurrence of question q in the input
InputIndex(q) == CHOOSE i \in 1..Len(questions) :
                     questions[i] = q /\ \A j \in 1..(i - 1) : questions[j] # q

InputCategories == {CategoryOf(questions[i]) : i \in 1..Len(questions)}

\* C22: _select_top_questions returns at most count questions, never the
\* same question twice, takes the first question of each not-yet-seen
\* category (in input order) before any second question of a category, and
\* when the input has at least count distinct categories all selected
\* questions have pairwise different categories.
C22_SelectTopQuestions ==
    QuestionsSelected =>
        /\ Len(selected) <= count
        /\ \A k \in 1..Len(selected) : \E i \in 1..Len(questions) :
              selected[k] = questions[i]
        /\ \A k, m \in 1..Len(selected) : k # m => selected[k] # selected[m]
        /\ \A k \in 1..Len(selected) :
              selected[k] \notin CategoryFirsts =>
                  \A f \in CategoryFirsts : \E m \in 1..(k - 1) : selected[m] = f
        /\ \A k, m \in 1..Len(selected) :
              (k < m /\ selected[k] \in CategoryFirsts
                     /\ selected[m] \in CategoryFirsts) =>
                  InputIndex(selected[k]) < InputIndex(selected[m])
        /\ Cardinality(InputCategories) >= count =>
              \A k, m \in 1..Len(selected) :
                  k # m => CategoryOf(selected[k]) # CategoryOf(selected[m])

C22_Witness ==
    /\ faq_pc = "answer"
    /\ count = MaxCount
    /\ Len(questions) = MaxQuestions
    /\ Len(selected) = count
    /\ Cardinality(InputCategories) = 2
    /\ CategoryOf(questions[1]) = CategoryOf(questions[2])
    /\ selected[2] = questions[3]
    /\ selected[3] = questions[2]

====
